---- MODULE Spec2Model ----
(***************************************************************************)
(* Model of the 1337patch parsing library (src/src/lib.rs).                *)
(*                                                                         *)
(* A Rust String is modelled as the sequence of its UTF-8 bytes (integers  *)
(* 0..255), a char as its code point.  A u64 is modelled as its 16 base-16 *)
(* limbs, most significant first, because TLC's integers are 32 bits wide; *)
(* a u8 is an integer 0..255.  A Result is a record whose field kind is    *)
(* "Ok", "WrongFormat", "ReadError", "ConvertionError" or, for a panic     *)
(* (a str slice off a char boundary or out of range), "Panic".             *)
(***************************************************************************)
EXTENDS Integers, Sequences, FiniteSets, TLC

VARIABLES mode, src, file, pos, startPos, calls, result, prev,
          line, lineResult, patch, text, parsed

vars == <<mode, src, file, pos, startPos, calls, result, prev,
          line, lineResult, patch, text, parsed>>

(***************************************************************************)
(* Program constants.                                                      *)
(***************************************************************************)
LINE_LEN == 23
ADDR_END == 16
OLD_START == 17
OLD_END == 19
NEW_START == 21
RADIX == 16
GT == 62
COLON == 58
MINUS == 45
U64_LIMBS == 16
U8_MAX == 255

(***************************************************************************)
(* Model bounds.                                                           *)
(***************************************************************************)
MaxPatchLines == 2
MaxCalls == 2

None == [kind |-> "None"]

Rep(n, b) == [i \in 1..n |-> b]

(***************************************************************************)
(* str primitives of the standard library, as the repository uses them.    *)
(***************************************************************************)
\* A UTF-8 continuation byte (10xxxxxx).
IsCont(b) == b >= 128 /\ b < 192

\* str::is_char_boundary, index counted from 0.
IsCharBoundary(s, i) ==
    \/ i = 0
    \/ i = Len(s)
    \/ i < Len(s) /\ ~IsCont(s[i + 1])

\* Whether &s[a..b] is defined; it panics otherwise.
CanSlice(s, a, b) ==
    a <= b /\ b <= Len(s) /\ IsCharBoundary(s, a) /\ IsCharBoundary(s, b)

\* &s[a..b], bytes a (included) to b (excluded), counted from 0.
Slice(s, a, b) == SubSeq(s, a + 1, b)

\* The number of bytes of the UTF-8 sequence a byte starts, 0 for a byte
\* that starts none.
Utf8Width(b) ==
    IF b < 128 THEN 1
    ELSE IF b >= 194 /\ b <= 223 THEN 2
    ELSE IF b >= 224 /\ b <= 239 THEN 3
    ELSE IF b >= 240 /\ b <= 244 THEN 4
    ELSE 0

RECURSIVE IsUtf8(_)
\* String::from_utf8 succeeds on these bytes (what read_line requires).
IsUtf8(s) ==
    IF s = <<>> THEN TRUE
    ELSE LET w == Utf8Width(s[1])
         IN  /\ w > 0
             /\ w <= Len(s)
             /\ \A k \in 2..w : IsCont(s[k])
             /\ IsUtf8(SubSeq(s, w + 1, Len(s)))

RECURSIVE ContValue(_, _)
\* The payload of the continuation bytes s[2..w], folded onto acc.
ContValue(s, acc) ==
    IF s = <<>> THEN acc
    ELSE ContValue(Tail(s), acc * 64 + (s[1] - 128))

RECURSIVE Chars(_)
\* str::chars of a valid UTF-8 string: its code points.
Chars(s) ==
    IF s = <<>> THEN <<>>
    ELSE LET w == Utf8Width(s[1])
             lead == IF w = 1 THEN s[1]
                     ELSE IF w = 2 THEN s[1] - 192
                     ELSE IF w = 3 THEN s[1] - 224
                     ELSE s[1] - 240
         IN  <<ContValue(SubSeq(s, 2, w), lead)>>
                 \o Chars(SubSeq(s, w + 1, Len(s)))

\* c | 0x20 for a code point below 2^21.
BitOr20(c) == IF (c \div 32) % 2 = 1 THEN c ELSE c + 32

\* char::to_digit(radix): the digit's value, or -1 for None.
ToDigit(c, radix) ==
    IF c >= 48 /\ c <= 57
    THEN (IF c - 48 < radix THEN c - 48 ELSE -1)
    ELSE IF radix > 10
              /\ BitOr20(c) >= 97
              /\ BitOr20(c) - 97 + 10 < radix
         THEN BitOr20(c) - 97 + 10
         ELSE -1

\* char::is_digit(radix).
IsDigit(c, radix) == ToDigit(c, radix) # -1

\* char::is_whitespace (White_Space) for code points below 256.
IsWhitespace(c) == c \in {9, 10, 11, 12, 13, 32, 133, 160}

RECURSIVE TrimEndChars(_)
TrimEndChars(cs) ==
    IF cs = <<>> THEN <<>>
    ELSE IF IsWhitespace(cs[Len(cs)])
         THEN TrimEndChars(SubSeq(cs, 1, Len(cs) - 1))
         ELSE cs

\* The UTF-8 length of a code point.
CharLen(c) == IF c < 128 THEN 1 ELSE IF c < 2048 THEN 2
              ELSE IF c < 65536 THEN 3 ELSE 4

RECURSIVE BytesLen(_)
BytesLen(cs) == IF cs = <<>> THEN 0 ELSE CharLen(cs[1]) + BytesLen(Tail(cs))

\* str::trim_end: the prefix left after removing the trailing whitespace
\* characters.
TrimEnd(s) == SubSeq(s, 1, BytesLen(TrimEndChars(Chars(s))))

(***************************************************************************)
(* Numbers.                                                                *)
(***************************************************************************)
Zero64 == Rep(U64_LIMBS, 0)

RECURSIVE FoldU64(_, _)
\* The digit loop of u64::from_str_radix(_, 16): result * 16 + digit with
\* checked arithmetic, on the limbs of result.
FoldU64(digits, acc) ==
    IF digits = <<>> THEN [ok |-> TRUE, val |-> acc]
    ELSE IF ToDigit(digits[1], RADIX) = -1
         THEN [ok |-> FALSE, err |-> "InvalidDigit"]
    ELSE IF acc[1] # 0
         THEN [ok |-> FALSE, err |-> "PosOverflow"]
    ELSE FoldU64(Tail(digits), Tail(acc) \o <<ToDigit(digits[1], RADIX)>>)

RECURSIVE FoldU8(_, _)
\* The digit loop of u8::from_str_radix(_, 16).
FoldU8(digits, acc) ==
    IF digits = <<>> THEN [ok |-> TRUE, val |-> acc]
    ELSE IF ToDigit(digits[1], RADIX) = -1
         THEN [ok |-> FALSE, err |-> "InvalidDigit"]
    ELSE IF acc * RADIX + ToDigit(digits[1], RADIX) > U8_MAX
         THEN [ok |-> FALSE, err |-> "PosOverflow"]
    ELSE FoldU8(Tail(digits), acc * RADIX + ToDigit(digits[1], RADIX))

\* The digits from_str_radix of an unsigned type folds: a leading '+' is
\* skipped, a '-' is left in place (and is then an invalid digit).
Unsigned(s) == IF s[1] = 43 THEN Tail(s) ELSE s

\* u64::from_str_radix(s, 16).
U64FromStrRadix(s) ==
    IF s = <<>> THEN [ok |-> FALSE, err |-> "Empty"]
    ELSE IF Len(s) = 1 /\ s[1] \in {43, 45}
         THEN [ok |-> FALSE, err |-> "InvalidDigit"]
    ELSE FoldU64(Unsigned(s), Zero64)

\* u8::from_str_radix(s, 16).
U8FromStrRadix(s) ==
    IF s = <<>> THEN [ok |-> FALSE, err |-> "Empty"]
    ELSE IF Len(s) = 1 /\ s[1] \in {43, 45}
         THEN [ok |-> FALSE, err |-> "InvalidDigit"]
    ELSE FoldU8(Unsigned(s), 0)

\* An uppercase hex digit, as {:X} writes it.
UpperHexDigit(d) == IF d < 10 THEN 48 + d ELSE 55 + d

RECURSIVE StripZeros(_)
\* The limbs {:X} writes: it divides by 16 until the value is 0, so the
\* leading zero limbs are not written, but the last limb always is.
StripZeros(limbs) ==
    IF Len(limbs) > 1 /\ limbs[1] = 0 THEN StripZeros(Tail(limbs)) ELSE limbs

\* Zero padding on the left up to the width.
PadZeros(s, width) ==
    IF Len(s) >= width THEN s ELSE Rep(width - Len(s), 48) \o s

\* format!("{:016X}", a) of a u64.
FmtU64(a) ==
    LET ds == StripZeros(a)
    IN  PadZeros([i \in 1..Len(ds) |-> UpperHexDigit(ds[i])], 16)

RECURSIVE HexDigitsOf(_)
\* The digits {:X} writes for a u8: x % 16 then x / 16 until x is 0.
HexDigitsOf(x) ==
    IF x < RADIX THEN <<UpperHexDigit(x)>>
    ELSE HexDigitsOf(x \div RADIX) \o <<UpperHexDigit(x % RADIX)>>

\* format!("{:02X}", b) of a u8.
FmtU8(b) == PadZeros(HexDigitsOf(b), 2)

(***************************************************************************)
(* HexPatch.                                                               *)
(***************************************************************************)
HexPatch_new(address, old, new) ==
    [target_address |-> address, old |-> old, new |-> new]

\* impl PartialEq for HexPatch.
HexPatch_eq(p, q) ==
    /\ p.target_address = q.target_address
    /\ p.old = q.old
    /\ p.new = q.new

\* HexPatch_fmt with "{:X}" in place of "{:02X}": the bytes are not padded.
HexPatch_fmt_NoPad(p) ==
    FmtU64(p.target_address) \o <<COLON>> \o HexDigitsOf(p.old)
        \o <<MINUS, GT>> \o HexDigitsOf(p.new)

\* impl Debug for HexPatch.
HexPatch_fmt(p) ==
    FmtU64(p.target_address) \o <<COLON>> \o FmtU8(p.old)
        \o <<MINUS, GT>> \o FmtU8(p.new)

(***************************************************************************)
(* F1337Patch: the line parser.                                            *)
(***************************************************************************)
AllHex(s) == \A i \in 1..Len(Chars(s)) : IsDigit(Chars(s)[i], RADIX)

\* check_patch_line_format without the check of the address digits.
check_patch_line_format_NoAddrCheck(l) ==
    IF Len(l) # LINE_LEN THEN "WrongFormat"
    ELSE IF ~CanSlice(l, ADDR_END, OLD_START) THEN "Panic"
    ELSE IF Slice(l, ADDR_END, OLD_START) # <<COLON>> THEN "WrongFormat"
    ELSE IF ~CanSlice(l, OLD_END, NEW_START) THEN "Panic"
    ELSE IF Slice(l, OLD_END, NEW_START) # <<MINUS, GT>> THEN "WrongFormat"
    ELSE IF ~CanSlice(l, OLD_START, OLD_END) THEN "Panic"
    ELSE IF ~AllHex(Slice(l, OLD_START, OLD_END)) THEN "WrongFormat"
    ELSE IF ~CanSlice(l, NEW_START, LINE_LEN) THEN "Panic"
    ELSE IF ~AllHex(Slice(l, NEW_START, LINE_LEN)) THEN "WrongFormat"
    ELSE "Ok"

check_patch_line_format(l) ==
    IF Len(l) # LINE_LEN THEN "WrongFormat"
    ELSE IF ~CanSlice(l, ADDR_END, OLD_START) THEN "Panic"
    ELSE IF Slice(l, ADDR_END, OLD_START) # <<COLON>> THEN "WrongFormat"
    ELSE IF ~CanSlice(l, OLD_END, NEW_START) THEN "Panic"
    ELSE IF Slice(l, OLD_END, NEW_START) # <<MINUS, GT>> THEN "WrongFormat"
    ELSE IF ~CanSlice(l, 0, ADDR_END) THEN "Panic"
    ELSE IF ~AllHex(Slice(l, 0, ADDR_END)) THEN "WrongFormat"
    ELSE IF ~CanSlice(l, OLD_START, OLD_END) THEN "Panic"
    ELSE IF ~AllHex(Slice(l, OLD_START, OLD_END)) THEN "WrongFormat"
    ELSE IF ~CanSlice(l, NEW_START, LINE_LEN) THEN "Panic"
    ELSE IF ~AllHex(Slice(l, NEW_START, LINE_LEN)) THEN "WrongFormat"
    ELSE "Ok"

\* ConvertFields with the old and new fields taken from each other's place.
ConvertFields_SwapOldNew(l) ==
    IF ~U64FromStrRadix(Slice(l, 0, ADDR_END)).ok
    THEN [kind |-> "ConvertionError"]
    ELSE IF ~U8FromStrRadix(Slice(l, OLD_START, OLD_END)).ok
            \/ ~U8FromStrRadix(Slice(l, NEW_START, LINE_LEN)).ok
    THEN [kind |-> "WrongFormat"]
    ELSE [kind |-> "Ok",
          value |-> HexPatch_new(
                        U64FromStrRadix(Slice(l, 0, ADDR_END)).val,
                        U8FromStrRadix(Slice(l, NEW_START, LINE_LEN)).val,
                        U8FromStrRadix(Slice(l, OLD_START, OLD_END)).val)]

\* The conversions of get_hex_patch_from_line, once the format is checked.
ConvertFields(l) ==
    IF ~CanSlice(l, 0, ADDR_END) THEN [kind |-> "Panic"]
    ELSE IF ~U64FromStrRadix(Slice(l, 0, ADDR_END)).ok
         THEN [kind |-> "ConvertionError"]
    ELSE IF ~CanSlice(l, OLD_START, OLD_END) THEN [kind |-> "Panic"]
    ELSE IF ~U8FromStrRadix(Slice(l, OLD_START, OLD_END)).ok
         THEN [kind |-> "WrongFormat"]
    ELSE IF ~CanSlice(l, NEW_START, LINE_LEN) THEN [kind |-> "Panic"]
    ELSE IF ~U8FromStrRadix(Slice(l, NEW_START, LINE_LEN)).ok
         THEN [kind |-> "WrongFormat"]
    ELSE [kind |-> "Ok",
          value |-> HexPatch_new(
                        U64FromStrRadix(Slice(l, 0, ADDR_END)).val,
                        U8FromStrRadix(Slice(l, OLD_START, OLD_END)).val,
                        U8FromStrRadix(Slice(l, NEW_START, LINE_LEN)).val)]

get_hex_patch_from_line(l) ==
    IF check_patch_line_format(l) # "Ok"
    THEN [kind |-> check_patch_line_format(l)]
    ELSE ConvertFields(l)

\* get_filename without the check of the '>' marker.
get_filename_NoCheck(first_line) ==
    IF ~CanSlice(first_line, 1, Len(first_line)) THEN [kind |-> "Panic"]
    ELSE [kind |-> "Ok",
          value |-> TrimEnd(Slice(first_line, 1, Len(first_line)))]

get_filename(first_line) ==
    IF Chars(first_line) = <<>> \/ Chars(first_line)[1] # GT
    THEN [kind |-> "WrongFormat"]
    ELSE IF ~CanSlice(first_line, 1, Len(first_line)) THEN [kind |-> "Panic"]
    ELSE [kind |-> "Ok",
          value |-> TrimEnd(Slice(first_line, 1, Len(first_line)))]

(***************************************************************************)
(* F1337Patch::new: the file parser.                                       *)
(***************************************************************************)
\* SeekFrom::Current(n) in place of SeekFrom::Start(n).
SeekFromStart_Current(cur, n) == cur + n

\* File::seek(SeekFrom::Start(n)) from the cursor cur: the new cursor.
SeekFromStart(cur, n) == n

\* BufRead::read_until(b'\n'): the offset after the line that starts at
\* offset off, its '\n' included.
ReadLineEnd(f, off) ==
    LET nl == {j \in (off + 1)..Len(f) : f[j] = 10}
    IN  IF nl = {} THEN Len(f) ELSE CHOOSE j \in nl : \A k \in nl : j <= k

\* A line reader that drops only the final "\n".
StripNewline_KeepCR(raw) ==
    IF raw # <<>> /\ raw[Len(raw)] = 10
    THEN SubSeq(raw, 1, Len(raw) - 1)
    ELSE raw

\* io::Lines::next: a final "\n" is dropped, and then a final "\r".
StripNewline(raw) ==
    IF raw # <<>> /\ raw[Len(raw)] = 10
    THEN IF Len(raw) > 1 /\ raw[Len(raw) - 1] = 13
         THEN SubSeq(raw, 1, Len(raw) - 2)
         ELSE SubSeq(raw, 1, Len(raw) - 1)
    ELSE raw

RECURSIVE ReadPatches_Prepend(_, _, _, _)
\* ReadPatches with each patch put at the front of the sequence.
ReadPatches_Prepend(f, off, acc, n) ==
    IF off >= Len(f)
    THEN [kind |-> "Ok", value |-> acc, linesRead |-> n]
    ELSE IF ~IsUtf8(SubSeq(f, off + 1, ReadLineEnd(f, off)))
    THEN [kind |-> "ReadError", linesRead |-> n + 1]
    ELSE LET l == StripNewline(SubSeq(f, off + 1, ReadLineEnd(f, off)))
             r == get_hex_patch_from_line(l)
         IN  IF r.kind # "Ok"
             THEN [kind |-> r.kind, linesRead |-> n + 1]
             ELSE ReadPatches_Prepend(f, ReadLineEnd(f, off),
                      [acc EXCEPT !.patches = <<r.value>> \o @], n + 1)

RECURSIVE ReadPatches(_, _, _, _)
\* The loop over bufreader.lines(), from offset off, with the lines read so
\* far counted in n (n is not program state: it records how far the reader
\* went).
ReadPatches(f, off, acc, n) ==
    IF off >= Len(f)
    THEN [kind |-> "Ok", value |-> acc, linesRead |-> n]
    ELSE IF ~IsUtf8(SubSeq(f, off + 1, ReadLineEnd(f, off)))
    THEN [kind |-> "ReadError", linesRead |-> n + 1]
    ELSE LET l == StripNewline(SubSeq(f, off + 1, ReadLineEnd(f, off)))
             r == get_hex_patch_from_line(l)
         IN  IF r.kind # "Ok"
             THEN [kind |-> r.kind, linesRead |-> n + 1]
             ELSE ReadPatches(f, ReadLineEnd(f, off),
                              [acc EXCEPT !.patches = Append(@, r.value)],
                              n + 1)

\* F1337Patch::new(patchfile) with the file's cursor at cur.
F1337Patch_new(f, cur) ==
    LET start == SeekFromStart(cur, 0)
        first_line == SubSeq(f, start + 1, ReadLineEnd(f, start))
    IN  IF ~IsUtf8(first_line)
        THEN [kind |-> "ReadError", linesRead |-> 0]
        ELSE IF get_filename(first_line).kind # "Ok"
        THEN [kind |-> get_filename(first_line).kind, linesRead |-> 0]
        ELSE ReadPatches(f, ReadLineEnd(f, start),
                         [target_filename |-> get_filename(first_line).value,
                          patches |-> <<>>],
                         0)

(***************************************************************************)
(* Inputs.                                                                 *)
(***************************************************************************)
\* "0000000000AF0200:13->37"
LineA == Rep(10, 48) \o <<65, 70, 48, 50, 48, 48, 58, 49, 51, 45, 62, 51, 55>>
\* "0000000000AF0206:37->37"
LineB == Rep(10, 48) \o <<65, 70, 48, 50, 48, 54, 58, 51, 55, 45, 62, 51, 55>>
\* "fedcba9876543210:aF->fA"
LineC == <<102, 101, 100, 99, 98, 97, 57, 56, 55, 54, 53, 52, 51, 50, 49, 48,
           58, 97, 70, 45, 62, 102, 65>>
\* "FFFFFFFFFFFFFFFF:FF->FF"
LineD == Rep(16, 70) \o <<58, 70, 70, 45, 62, 70, 70>>
\* "0000000000AF0200:13->ZA"
LineZ == Rep(10, 48) \o <<65, 70, 48, 50, 48, 48, 58, 49, 51, 45, 62, 90, 65>>
\* 15 digits, a two-byte character over bytes 15 and 16, then "13->37": 23
\* bytes, 22 characters.
LineP == Rep(15, 48) \o <<195, 169, 49, 51, 45, 62, 51, 55>>
\* A line that is not UTF-8: a lone continuation byte.
LineU == Rep(10, 48) \o <<169>>

BaseLines == {LineA, LineC, LineD}

\* The bytes a mutation writes: the neighbours of the digit ranges, the
\* separators, a sign, blanks.
MutBytes == {9, 13, 32, 43, 45, 47, 48, 57, 58, 62, 64, 65, 70, 71,
             96, 97, 102, 103}

SetByte(l, i, b) == [l EXCEPT ![i] = b]
\* A two-byte character over bytes i and i + 1.
SetTwo(l, i) == [l EXCEPT ![i] = 195, ![i + 1] = 169]
\* A two-byte character in place of byte i.
WidenByte(l, i) == SubSeq(l, 1, i - 1) \o <<195, 169>> \o SubSeq(l, i + 1, Len(l))
DeleteByte(l, i) == SubSeq(l, 1, i - 1) \o SubSeq(l, i + 1, Len(l))
InsertByte(l, i, b) == SubSeq(l, 1, i - 1) \o <<b>> \o SubSeq(l, i, Len(l))

\* The Strings given to get_hex_patch_from_line: every one is valid UTF-8.
Lines ==
    BaseLines
    \cup {SetByte(l, i, b) : l \in BaseLines, i \in 1..LINE_LEN, b \in MutBytes}
    \cup {SetTwo(l, i) : l \in BaseLines, i \in 1..(LINE_LEN - 1)}
    \cup {SetTwo(SetByte(l, ADDR_END + 1, 48), i) :
              l \in BaseLines, i \in 1..(LINE_LEN - 1)}
    \cup {WidenByte(l, i) : l \in BaseLines, i \in 1..LINE_LEN}
    \cup {DeleteByte(l, i) : l \in BaseLines, i \in 1..LINE_LEN}
    \cup {InsertByte(l, i, b) : l \in BaseLines, i \in 1..(LINE_LEN + 1),
                                b \in {48, 58, 70}}
    \cup {SubSeq(LineA, 1, n) : n \in 0..LINE_LEN}

\* The header lines, without terminator: ">a.x", ">", ">a ", ">a\t ",
\* "> a", ">" and a two-byte character, "a.x", "", " >a", a two-byte
\* character and ">", ">" and a byte that is not UTF-8.
Headers == {<<62, 97, 46, 120>>, <<62>>, <<62, 97, 32>>, <<62, 97, 9, 32>>,
            <<62, 32, 97>>, <<62, 195, 169>>, <<97, 46, 120>>, <<>>,
            <<32, 62, 97>>, <<195, 169, 62>>, <<62, 169>>}

MainHeaders == {<<62, 97, 46, 120>>, <<97, 46, 120>>}

PatchLines == {LineA, LineB, LineZ, LineP, LineU, <<>>}

LineSeqs == UNION {[1..n -> PatchLines] : n \in 0..MaxPatchLines}

\* The line terminators: "\n" and "\r\n".
Terminator(style) == IF style = "CRLF" THEN <<13, 10>> ELSE <<10>>

RECURSIVE Concat(_)
Concat(ss) == IF ss = <<>> THEN <<>> ELSE ss[1] \o Concat(Tail(ss))

\* The bytes of the file that holds the lines ls, each terminated as the
\* style says, the last one only if lastTerm.
Render(ls, style, lastTerm) ==
    Concat([i \in 1..Len(ls) |->
               IF i < Len(ls) \/ lastTerm
               THEN ls[i] \o Terminator(style) ELSE ls[i]])

Sources ==
    {s \in [header : Headers, lines : LineSeqs,
            style : {"LF", "CRLF"}, lastTerm : BOOLEAN] :
        Len(s.lines) <= 1 \/ s.header \in MainHeaders}

Addresses ==
    {Zero64, Rep(U64_LIMBS, 15),
     Rep(10, 0) \o <<10, 15, 0, 2, 0, 0>>,
     <<8>> \o Rep(15, 0),
     <<1, 2, 3, 4, 5, 6, 7, 8, 9, 10, 11, 12, 13, 14, 15, 0>>,
     Rep(15, 0) \o <<1>>}

Patches ==
    {HexPatch_new(a, o, n) :
        a \in Addresses, o \in 0..U8_MAX, n \in {0, 55, 160, U8_MAX}}

(***************************************************************************)
(* The state machine: a caller that parses a patch file (mode "file"), one *)
(* that decodes one line (mode "line") and one that renders a HexPatch and *)
(* decodes the text again (mode "patch").                                  *)
(***************************************************************************)
InitFile ==
    /\ mode = "file"
    /\ src \in Sources
    /\ file = Render(<<src.header>> \o src.lines, src.style, src.lastTerm)
    /\ pos = 0
    /\ startPos = 0
    /\ calls = 0
    /\ result = None
    /\ prev = None
    /\ line = <<>> /\ lineResult = None
    /\ patch = None /\ text = <<>> /\ parsed = None

InitLine ==
    /\ mode = "line"
    /\ line \in Lines
    /\ lineResult = None
    /\ src = None /\ file = <<>> /\ pos = 0 /\ startPos = 0 /\ calls = 0
    /\ result = None /\ prev = None
    /\ patch = None /\ text = <<>> /\ parsed = None

InitPatch ==
    /\ mode = "patch"
    /\ patch \in Patches
    /\ text = <<>>
    /\ parsed = None
    /\ src = None /\ file = <<>> /\ pos = 0 /\ startPos = 0 /\ calls = 0
    /\ result = None /\ prev = None
    /\ line = <<>> /\ lineResult = None

Init == InitFile \/ InitLine \/ InitPatch

\* The offsets a caller may leave the file's cursor at: the start, the
\* middle and the end of the file.
Cursors == {0, Len(file) \div 2, Len(file)}

\* F1337Patch::new(&mut file), called with the file's cursor wherever the
\* caller left it (startPos).  The BufReader fills its buffer (8 KiB, more
\* than any file here) at the first read, which leaves the cursor at the
\* end of the file.  A failing read is modelled by a line that is not
\* UTF-8, the one read error the file's bytes decide.
New ==
    /\ mode = "file"
    /\ calls < MaxCalls
    /\ \E cur \in Cursors :
           /\ startPos' = cur
           /\ result' = F1337Patch_new(file, cur)
    /\ prev' = result
    /\ calls' = calls + 1
    /\ pos' = Len(file)
    /\ UNCHANGED <<mode, src, file, line, lineResult, patch, text, parsed>>

\* F1337Patch::get_hex_patch_from_line(&line).
GetHexPatchFromLine ==
    /\ mode = "line"
    /\ lineResult' = get_hex_patch_from_line(line)
    /\ mode' = "lineDone"
    /\ UNCHANGED <<src, file, pos, startPos, calls, result, prev, line,
                   patch, text, parsed>>

\* format!("{:?}", patch).
Fmt ==
    /\ mode = "patch"
    /\ text' = HexPatch_fmt(patch)
    /\ mode' = "text"
    /\ UNCHANGED <<src, file, pos, startPos, calls, result, prev, line, lineResult,
                   patch, parsed>>

\* F1337Patch::get_hex_patch_from_line(&text) on the rendered text.
Reparse ==
    /\ mode = "text"
    /\ parsed' = get_hex_patch_from_line(text)
    /\ mode' = "reparsed"
    /\ UNCHANGED <<src, file, pos, startPos, calls, result, prev, line, lineResult,
                   patch, text>>

Next == New \/ GetHexPatchFromLine \/ Fmt \/ Reparse

Spec == Init /\ [][Next]_vars

(***************************************************************************)
(* The format as the documentation states it, on characters: these         *)
(* definitions are independent of the parser above.                        *)
(***************************************************************************)
\* A hex digit: 0-9, A-F, a-f.
HexChar(c) == c \in (48..57) \cup (65..70) \cup (97..102)

\* The value of a hex digit.
HexVal(c) ==
    IF c \in 48..57 THEN c - 48
    ELSE IF c \in 65..70 THEN c - 55
    ELSE c - 87

\* The patch-line grammar: 16 hex digits, ':', 2 hex digits, "->", 2 hex
\* digits, 23 characters in all.
Grammar(l) ==
    /\ IsUtf8(l)
    /\ LET cs == Chars(l)
       IN  /\ Len(cs) = 23
           /\ \A i \in 1..16 : HexChar(cs[i])
           /\ cs[17] = 58
           /\ HexChar(cs[18]) /\ HexChar(cs[19])
           /\ cs[20] = 45 /\ cs[21] = 62
           /\ HexChar(cs[22]) /\ HexChar(cs[23])

\* The HexPatch a grammatical line denotes.
Denoted(l) ==
    [target_address |-> [i \in 1..16 |-> HexVal(l[i])],
     old |-> 16 * HexVal(l[18]) + HexVal(l[19]),
     new |-> 16 * HexVal(l[22]) + HexVal(l[23])]

ToUpper(l) == [i \in 1..Len(l) |-> IF l[i] \in 97..122 THEN l[i] - 32 ELSE l[i]]
ToLower(l) == [i \in 1..Len(l) |-> IF l[i] \in 65..90 THEN l[i] + 32 ELSE l[i]]

\* The lines that follow the header in the file: an empty last line without
\* a terminator adds no byte to the file, and is no line of it.
FileLines ==
    IF ~src.lastTerm /\ src.lines # <<>> /\ src.lines[Len(src.lines)] = <<>>
    THEN SubSeq(src.lines, 1, Len(src.lines) - 1)
    ELSE src.lines

HeaderMarked == src.header # <<>> /\ src.header[1] = 62

BadLine(l) == ~IsUtf8(l) \/ ~Grammar(l)

\* The index of the first line of ls that cannot be read or is not
\* grammatical, 0 if there is none.
FirstBad(ls) ==
    IF \A k \in 1..Len(ls) : ~BadLine(ls[k]) THEN 0
    ELSE CHOOSE k \in 1..Len(ls) :
             BadLine(ls[k]) /\ \A j \in 1..(k - 1) : ~BadLine(ls[j])

Called == mode = "file" /\ calls >= 1

\* What a caller sees of a result: the value, or the kind of the error.
Outcome(r) == IF r.kind = "Ok" THEN [kind |-> "Ok", value |-> r.value]
              ELSE [kind |-> r.kind]

(***************************************************************************)
(* Claims.                                                                 *)
(***************************************************************************)
\* C1: every line that deviates from the grammar (length, separators, a
\* character that is no hex digit; non-ASCII characters included) makes
\* get_hex_patch_from_line return WrongFormat, and nothing else: no other
\* error, no panic.
C1_DeviationIsWrongFormat ==
    (mode = "lineDone" /\ ~Grammar(line)) => lineResult.kind = "WrongFormat"

\* C2: a line of the grammar decodes to Ok(HexPatch) with the base-16 values
\* of its three fields, and lines that differ only in the case of their
\* digits decode to the same HexPatch.
C2_GrammaticalLineDecodes ==
    (mode = "lineDone" /\ Grammar(line)) =>
        /\ lineResult.kind = "Ok"
        /\ lineResult.value = Denoted(line)
        /\ get_hex_patch_from_line(ToUpper(line)) = lineResult
        /\ get_hex_patch_from_line(ToLower(line)) = lineResult

C2_Witness ==
    /\ mode = "lineDone"
    /\ Grammar(line)
    /\ line # ToUpper(line) /\ line # ToLower(line)
    /\ lineResult.kind = "Ok"
    /\ lineResult.value.old # lineResult.value.new

\* C3: the Debug text of a HexPatch is 16 + 2 + 2 uppercase zero-padded hex
\* digits around ':' and "->", and get_hex_patch_from_line of that text is
\* Ok(q) with q equal to the HexPatch field by field.
C3_RoundTrip ==
    /\ mode \in {"text", "reparsed"} =>
           /\ Grammar(text)
           /\ text = ToUpper(text)
    /\ mode = "reparsed" =>
           /\ parsed.kind = "Ok"
           /\ HexPatch_eq(parsed.value, patch)

C3_Witness ==
    /\ mode = "reparsed"
    /\ patch.target_address = <<8>> \o Rep(15, 0)
    /\ patch.old = 10
    /\ patch.new = 160
    /\ parsed.kind = "Ok"

\* C4: a header that starts with '>' followed by n >= 0 grammatical patch
\* lines gives Ok with exactly n patches, the k-th the decoding of the k-th
\* line: order kept, duplicates and equal old/new kept.
C4_PatchesInOrder ==
    (/\ Called
     /\ IsUtf8(src.header) /\ HeaderMarked
     /\ \A k \in 1..Len(src.lines) : Grammar(src.lines[k])) =>
        /\ result.kind = "Ok"
        /\ Len(result.value.patches) = Len(src.lines)
        /\ \A k \in 1..Len(src.lines) :
               result.value.patches[k] = Denoted(src.lines[k])

C4_Witness ==
    /\ Called
    /\ HeaderMarked
    /\ Len(src.lines) >= 2
    /\ \A k \in 1..Len(src.lines) : Grammar(src.lines[k])
    /\ src.lines[1] # src.lines[2]
    /\ result.kind = "Ok"
    /\ Len(result.value.patches) = Len(src.lines)

\* C5: F1337Patch::new returns Ok iff the header is valid and every line
\* after it is read and is grammatical; otherwise it returns the error of
\* the first failing line (ReadError if it cannot be read, WrongFormat if it
\* is not grammatical) and reads no line after it.
C5_FailFast ==
    Called =>
        IF ~IsUtf8(src.header)
        THEN result.kind = "ReadError" /\ result.linesRead = 0
        ELSE IF ~HeaderMarked
        THEN result.kind = "WrongFormat" /\ result.linesRead = 0
        ELSE IF FirstBad(FileLines) = 0
        THEN result.kind = "Ok"
        ELSE /\ result.kind = (IF IsUtf8(FileLines[FirstBad(FileLines)])
                               THEN "WrongFormat" ELSE "ReadError")
             /\ result.linesRead = FirstBad(FileLines)

\* C6: a first line whose first character is not '>' (the empty first line
\* of an empty source included) gives WrongFormat, and no patch line is
\* read.
C6_HeaderWithoutMarker ==
    (Called /\ IsUtf8(src.header) /\ ~HeaderMarked) =>
        /\ result.kind = "WrongFormat"
        /\ result.linesRead = 0

C6_Witness ==
    /\ Called
    /\ src.header = <<97, 46, 120>>
    /\ src.lines # <<>> /\ Grammar(src.lines[1])
    /\ result.kind = "WrongFormat"

\* C7: target_filename is exactly the text after the '>', with only the
\* line terminator removed and every other character kept.
C7_FilenameVerbatim ==
    (Called /\ result.kind = "Ok") =>
        result.value.target_filename = Tail(src.header)

\* C8: F1337Patch::new parses from byte 0 wherever the caller left the
\* cursor, so the result is the one for a cursor at 0, and a second call on
\* the unchanged file returns what the first returned.
C8_ParsesFromStart ==
    Called =>
        /\ result = F1337Patch_new(file, 0)
        /\ calls >= 2 => result = prev

C8_Witness ==
    /\ Called
    /\ calls >= 2
    /\ startPos > 0 /\ startPos < Len(file)
    /\ result.kind = "Ok"
    /\ Len(result.value.patches) = 2

\* C9 as stated: the result (filename and patches, or the kind of error) is
\* the same whether the lines end with "\n" or "\r\n", and whether or not
\* the last line has a terminator.
C9_AnyLayoutSameResult ==
    Called =>
        \A style \in {"LF", "CRLF"}, lastTerm \in BOOLEAN :
            Outcome(F1337Patch_new(
                Render(<<src.header>> \o src.lines, style, lastTerm), 0))
                = Outcome(result)

\* C9 as amended: the same, where the terminator of the last line may be
\* left out only if that line is not empty; and no terminator byte reaches
\* the filename.
C9_LayoutSameResult ==
    Called =>
        /\ \A style \in {"LF", "CRLF"}, lastTerm \in BOOLEAN :
               (lastTerm = src.lastTerm
                    \/ (<<src.header>> \o src.lines)[Len(src.lines) + 1] # <<>>)
               => Outcome(F1337Patch_new(
                      Render(<<src.header>> \o src.lines, style, lastTerm), 0))
                      = Outcome(result)
        /\ result.kind = "Ok" =>
               \A i \in 1..Len(result.value.target_filename) :
                   result.value.target_filename[i] \notin {10, 13}

C9_Witness ==
    /\ Called
    /\ src.style = "CRLF"
    /\ ~src.lastTerm
    /\ Len(src.lines) >= 2
    /\ result.kind = "Ok"
    /\ Len(result.value.patches) = Len(src.lines)

====
